---- MODULE Spec2Model ----
(***************************************************************************)
(* A model of jenkins-jobcfg.py: the credential resolver (jenkins_config), *)
(* the request layer (jenkins_request, jenkins_crumb), the batch commands  *)
(* of __main__ and the XML <-> YAML converter (xml2yaml, yaml2xml).        *)
(*                                                                         *)
(* Python values: a str that the program only compares is a TLA+ string,   *)
(* with None the Python None of such a variable; the password, which the   *)
(* program encodes and decodes, is a sequence of byte values, with         *)
(* NoneBytes the Python None of such a variable.  A dict is a function     *)
(* whose DOMAIN is its key set; an OrderedDict is a sequence of            *)
(* <<key, value>> pairs with distinct keys.                                *)
(***************************************************************************)
EXTENDS Integers, Sequences, FiniteSets, TLC

VARIABLES
    \* ---- jenkins_config (the credential resolver)
    pc,           \* position of the process inside jenkins_config
    cfg_id,       \* args.cfg_id: the -c argument, None when absent
    file,         \* the credential store file on disk
    file0,        \* the file as it was at process start
    all_configs,  \* the OrderedDict of jenkins_config
    config_id,    \* the effective identifier
    config_url, config_usr, config_pwd,
    typed,        \* what getpass returned
    prompted,     \* the prompts shown so far, in order
    checks,       \* outcome of each call of jenkins_check_config, in order
    opens,        \* number of open(config_file, 'wb') calls that succeeded
    wire,         \* requests sent to the server, in order
    exitCode,     \* -1 while running or after a return, else the exit status
    result,       \* the triple returned by jenkins_config
    \* ---- __main__ batch commands
    bpc,          \* position of the process inside the batch loop
    action,       \* args.action
    items,        \* args.job_names or args.config_files
    idx,          \* index of the item the for loop is at
    outcome,      \* per item: what happened to it
    warnings_,    \* lines printed on stderr, in order
    stdout,       \* lines printed on stdout, in order
    bwire,        \* requests sent to the server by the batch, in order
    \* ---- xml2yaml / yaml2xml
    xpc,          \* position inside the fetch-then-push round trip
    xmlIn,        \* the XML document given to xml2yaml
    yamlText,     \* the YAML text xml2yaml returned
    xmlOut        \* the XML document yaml2xml returned

cvars == <<pc, cfg_id, file, file0, all_configs, config_id, config_url,
           config_usr, config_pwd, typed, prompted, checks, opens, wire,
           exitCode, result>>
bvars == <<bpc, action, items, idx, outcome, warnings_, stdout, bwire>>
xvars == <<xpc, xmlIn, yamlText, xmlOut>>
vars  == <<cvars, bvars, xvars>>

\* ------------------------------------------------------------------ bounds

MaxEntries   == 2   \* entries of the store file at process start
MaxSecretLen == 2   \* bytes of the secret typed at the password prompt
MaxItems     == 3   \* items of a batch command
MaxChildren  == 3   \* child elements of the root of an XML document

\* --------------------------------------------------------- Python values

None      == "None"
NoneBytes == <<-1>>

Truthy(x)      == x # None /\ x # ""
TruthyBytes(x) == x # NoneBytes /\ x # <<>>

\* x or y
Or(x, y) == IF Truthy(x) THEN x ELSE y

\* d.get(k, default)
Get(d, k, default) == IF k \in DOMAIN d THEN d[k] ELSE default

EmptyDict == [k \in {} |-> None]

\* All sequences over S of length at most n
RECURSIVE SeqsUpTo(_, _)
SeqsUpTo(S, n) ==
    IF n = 0 THEN {<<>>}
    ELSE LET shorter == SeqsUpTo(S, n - 1)
         IN  shorter \cup {Append(s, x) : s \in shorter, x \in S}

\* ---------------------------------------------------------------- base64

Pad == 61   \* '='

\* the character of a 6-bit value in the standard alphabet
B64Char(i) ==
    IF i < 26 THEN 65 + i
    ELSE IF i < 52 THEN 97 + (i - 26)
    ELSE IF i < 62 THEN 48 + (i - 52)
    ELSE IF i = 62 THEN 43 ELSE 47

\* the 6-bit value of a character, -1 when it is not in the alphabet
B64Val(c) ==
    IF c >= 65 /\ c <= 90 THEN c - 65
    ELSE IF c >= 97 /\ c <= 122 THEN c - 97 + 26
    ELSE IF c >= 48 /\ c <= 57 THEN c - 48 + 52
    ELSE IF c = 43 THEN 62
    ELSE IF c = 47 THEN 63 ELSE -1

\* base64.b64encode
RECURSIVE b64encode(_)
b64encode(s) ==
    IF Len(s) = 0 THEN <<>>
    ELSE LET n  == Len(s)
             b2 == IF n >= 2 THEN s[2] ELSE 0
             b3 == IF n >= 3 THEN s[3] ELSE 0
             w  == s[1] * 65536 + b2 * 256 + b3
             c1 == B64Char(w \div 262144)
             c2 == B64Char((w \div 4096) % 64)
             c3 == IF n >= 2 THEN B64Char((w \div 64) % 64) ELSE Pad
             c4 == IF n >= 3 THEN B64Char(w % 64) ELSE Pad
         IN  <<c1, c2, c3, c4>>
                 \o (IF n > 3 THEN b64encode(SubSeq(s, 4, n)) ELSE <<>>)

\* base64.b64decode: [ok |-> FALSE] stands for the TypeError it raises
RECURSIVE B64Groups(_)
B64Groups(t) ==
    IF Len(t) = 0 THEN <<>>
    ELSE LET v1 == B64Val(t[1])
             v2 == B64Val(t[2])
             v3 == IF t[3] = Pad THEN 0 ELSE B64Val(t[3])
             v4 == IF t[4] = Pad THEN 0 ELSE B64Val(t[4])
             w  == v1 * 262144 + v2 * 4096 + v3 * 64 + v4
             o1 == <<w \div 65536>>
             o2 == IF t[3] = Pad THEN <<>> ELSE <<(w \div 256) % 256>>
             o3 == IF t[4] = Pad THEN <<>> ELSE <<w % 256>>
         IN  IF t[3] = Pad \/ t[4] = Pad
             THEN o1 \o o2 \o o3
             ELSE o1 \o o2 \o o3 \o B64Groups(SubSeq(t, 5, Len(t)))

b64decode(t) ==
    LET kept == SelectSeq(t, LAMBDA c : B64Val(c) >= 0 \/ c = Pad)
        bad  == \/ Len(kept) % 4 # 0
                \/ \E i \in 1..Len(kept) :
                      /\ kept[i] = Pad
                      /\ \/ i % 4 \in {1, 2}
                         \/ i % 4 = 3 /\ kept[i + 1] # Pad
    IN  IF bad THEN [ok |-> FALSE, v |-> <<>>]
        ELSE [ok |-> TRUE, v |-> B64Groups(kept)]

\* ------------------------------------------------------------ OrderedDict

Keys(od) == [i \in 1..Len(od) |-> od[i][1]]

HasKey(od, k) == \E i \in 1..Len(od) : od[i][1] = k

\* od.get(k, default)
OdGet(od, k, default) ==
    IF HasKey(od, k)
    THEN od[CHOOSE i \in 1..Len(od) : od[i][1] = k][2]
    ELSE default

\* A bug SetItem could have: an overwritten key moves to the end, as with
\* del od[k] before od[k] = v.
SetItem_MoveToEnd(od, k, v) ==
    Append(SelectSeq(od, LAMBDA e : e[1] # k), <<k, v>>)

\* od[k] = v: a key already present keeps its place, a new key goes last
SetItem(od, k, v) ==
    IF HasKey(od, k)
    THEN [i \in 1..Len(od) |-> IF od[i][1] = k THEN <<k, v>> ELSE od[i]]
    ELSE Append(od, <<k, v>>)

\* collections.OrderedDict(pairs)
RECURSIVE OrderedDict(_)
OrderedDict(pairs) ==
    IF Len(pairs) = 0 THEN <<>>
    ELSE LET n == Len(pairs)
         IN  SetItem(OrderedDict(SubSeq(pairs, 1, n - 1)),
                     pairs[n][1], pairs[n][2])

\* ----------------------------------------------------------- the server

Statuses == {200, 401, 404, 500}

\* err: requests raised (connection refused, timeout, TLS failure, ...)
Responses ==
    {[err |-> TRUE, status |-> 0, content |-> <<>>]}
        \cup [err : {FALSE}, status : Statuses, content : {<<>>}]

\* What the crumb issuer may answer: a failure, not found, a server error,
\* and with status 200 the body "J:c" or a body that is not field:crumb.
CrumbBodies == {<<"J", ":", "c">>, <<"J", "c">>}

CrumbResponses ==
    {[err |-> TRUE, status |-> 0, content |-> <<>>]}
        \cup [err : {FALSE}, status : {404, 500}, content : {<<>>}]
        \cup [err : {FALSE}, status : {200}, content : CrumbBodies]

NoResponse == [err |-> TRUE, status |-> 0, content |-> <<>>]

\* content.split(sep)
RECURSIVE Split(_, _)
Split(s, sep) ==
    IF \A i \in 1..Len(s) : s[i] # sep THEN <<s>>
    ELSE LET i == CHOOSE j \in 1..Len(s) :
                      s[j] = sep /\ \A l \in 1..(j - 1) : s[l] # sep
         IN  <<SubSeq(s, 1, i - 1)>> \o Split(SubSeq(s, i + 1, Len(s)), sep)

\* d1.update(d2)
Update(d1, d2) ==
    [k \in DOMAIN d1 \cup DOMAIN d2 |-> IF k \in DOMAIN d2 THEN d2[k] ELSE d1[k]]

\* lines 185-190: the call of requests.get or requests.post with the
\* decoded password dec.  jenkins_url + req_url raises on a None url and
\* b64decode on a password that is not base64, both before anything is sent.
Send(config, dec, req_type, req_url, headers, resp) ==
    IF config.url = None \/ ~dec.ok
    THEN [raised |-> TRUE, status |-> 0, content |-> <<>>, sent |-> <<>>]
    ELSE [raised  |-> resp.err,
          status  |-> resp.status,
          content |-> resp.content,
          sent    |-> <<[method  |-> req_type,
                         url     |-> <<config.url, req_url>>,
                         user    |-> config.usr,
                         pass    |-> dec.v,
                         headers |-> headers]>>]

request_func(config, req_type, req_url, headers, resp) ==
    Send(config,
         IF config.pwd = NoneBytes THEN [ok |-> FALSE, v |-> <<>>]
         ELSE b64decode(config.pwd),
         req_type, req_url, headers, resp)

\* A request path is the sequence of its pieces.
CrumbUrl ==
    <<"/crumbIssuer/api/xml?xpath=concat(//crumbRequestField,\":\",//crumb)">>

\* A bug CrumbHeader could have: every status but 200 taken as "no crumb
\* issuer", not only 404.
CrumbHeader_NoCrumbUnless200(r, parts) ==
    IF r.raised
    THEN [raised |-> TRUE, header |-> EmptyDict, sent |-> r.sent]
    ELSE IF r.status # 200
    THEN [raised |-> FALSE, header |-> EmptyDict, sent |-> r.sent]
    ELSE IF Len(parts) # 2
    THEN [raised |-> TRUE, header |-> EmptyDict, sent |-> r.sent]
    ELSE [raised |-> FALSE,
          header |-> [k \in {parts[1]} |-> parts[2]],
          sent   |-> r.sent]

\* lines 196-200, for the response r to the crumb request and the parts of
\* its content: the header to add, or raised
CrumbHeader(r, parts) ==
    IF r.raised
    THEN [raised |-> TRUE, header |-> EmptyDict, sent |-> r.sent]
    ELSE IF r.status = 404
    THEN [raised |-> FALSE, header |-> EmptyDict, sent |-> r.sent]
    ELSE IF r.status # 200 \/ Len(parts) # 2
    THEN [raised |-> TRUE, header |-> EmptyDict, sent |-> r.sent]
    ELSE [raised |-> FALSE,
          header |-> [k \in {parts[1]} |-> parts[2]],
          sent   |-> r.sent]

CrumbOf(r) == CrumbHeader(r, Split(r.content, ":"))

\* jenkins_crumb
jenkins_crumb(config, crumbResp) ==
    CrumbOf(request_func(config, "GET", CrumbUrl, EmptyDict, crumbResp))

\* lines 182-190 of a POST, for the outcome c of jenkins_crumb
PostWith(config, c, req_type, req_url, headers, resp) ==
    IF c.raised
    THEN [raised |-> TRUE, status |-> 0, content |-> <<>>, sent |-> c.sent]
    ELSE [request_func(config, req_type, req_url,
                       Update(headers, c.header), resp)
              EXCEPT !.sent = c.sent \o @]

\* jenkins_request
jenkins_request(config, req_type, req_url, headers, crumbResp, resp) ==
    IF req_type \notin {"GET", "POST"}
    THEN [raised |-> TRUE, status |-> 0, content |-> <<>>, sent |-> <<>>]
    ELSE IF req_type = "POST"
    THEN PostWith(config, jenkins_crumb(config, crumbResp),
                  req_type, req_url, headers, resp)
    ELSE request_func(config, req_type, req_url, headers, resp)

\* lines 106-107, for the outcome r of the request
CheckKind(r) ==
    [kind |-> IF r.raised THEN "raised"
              ELSE IF r.status # 200 THEN "status" ELSE "ok",
     sent |-> r.sent]

\* A bug jenkins_check_config could have: the fields asserted after the
\* request instead of before it.
jenkins_check_config_RequestFirst(config, resp) ==
    IF ~(Truthy(config.url) /\ Truthy(config.usr) /\ TruthyBytes(config.pwd))
    THEN [kind |-> "missing",
          sent |-> jenkins_request(config, "GET", <<"/api/json">>, EmptyDict,
                                   NoResponse, resp).sent]
    ELSE CheckKind(jenkins_request(config, "GET", <<"/api/json">>, EmptyDict,
                                   NoResponse, resp))

\* jenkins_check_config: kind is "ok", or why it raised
jenkins_check_config(config, resp) ==
    IF ~(Truthy(config.url) /\ Truthy(config.usr) /\ TruthyBytes(config.pwd))
    THEN [kind |-> "missing", sent |-> <<>>]
    ELSE CheckKind(jenkins_request(config, "GET", <<"/api/json">>, EmptyDict,
                                   NoResponse, resp))

\* ------------------------------------------------- the store file on disk

\* A permission mode is its three octal digits.
Mode0600 == <<6, 0, 0>>
Mode0644 == <<6, 4, 4>>

Bit(x, i) == (x \div (2 ^ i)) % 2

\* a & ~m on one octal digit
AndNot(a, m) ==
    Bit(a, 0) * (1 - Bit(m, 0)) + 2 * Bit(a, 1) * (1 - Bit(m, 1))
        + 4 * Bit(a, 2) * (1 - Bit(m, 2))

\* the mode open(name, 'wb') gives a file it creates: 0666 & ~umask
CreateMode(umask) == [i \in 1..3 |-> AndNot(6, umask[i])]

Umasks == {<<0, 2, 2>>, <<0, 7, 7>>}

StoreIds == {"cfg1", "cfg2", "default"}

\* The values an entry of the store file has at process start: one the
\* program wrote, one whose password is not base64 ("pw"), and one whose
\* username key is missing.
EntryVals ==
    { [url |-> "http://j1", username |-> "alice",
       password |-> b64encode(<<112, 119>>)],
      [url |-> "http://j1", username |-> "alice", password |-> <<112, 119>>],
      [url |-> "http://j1", password |-> b64encode(<<112, 119>>)] }

\* The store files the program can find: the list of single-key mappings
\* it writes has distinct identifiers.
Stores ==
    {s \in SeqsUpTo(StoreIds \X EntryVals, MaxEntries) :
        \A i, j \in 1..Len(s) : s[i][1] = s[j][1] => i = j}

AbsentFile ==
    [exists |-> FALSE, wellformed |-> TRUE, entries |-> <<>>,
     mode |-> <<0, 0, 0>>]

InitFiles ==
    {AbsentFile}
        \cup {[exists |-> TRUE, wellformed |-> FALSE, entries |-> <<>>,
               mode |-> Mode0600]}
        \cup [exists : {TRUE}, wellformed : {TRUE}, entries : Stores,
              mode : {Mode0600, Mode0644}]

\* the -c argument
CfgIds == {None, "", "cfg2", "cfgX"}

\* what the operator types at the url and username prompts
UrlInputs == {"", "http://j2"}
UsrInputs == {"", "bob"}
\* os.getenv('JENKINS_URL') and os.getenv('USER')
EnvUrls  == {None, "http://env"}
EnvUsers == {"root"}
\* what the operator types at the password prompt
SecretBytes == {112}
Secrets == SeqsUpTo(SecretBytes, MaxSecretLen)

\* jenkins_configs: the parsed list, [] for a missing or empty file
jenkins_configs(f) == IF f.exists THEN f.entries ELSE <<>>

\* A bug EffectiveId could have: the last entry of the store as the default.
EffectiveId_Last(given, configs) ==
    IF Truthy(given) THEN given
    ELSE IF Len(configs) > 0 /\ Truthy(configs[Len(configs)][1])
    THEN configs[Len(configs)][1]
    ELSE "default"

\* the effective identifier of jenkins_config
EffectiveId(given, configs) ==
    IF Truthy(given) THEN given
    ELSE IF Len(configs) > 0 /\ Truthy(configs[1][1]) THEN configs[1][1]
    ELSE "default"

Config == [url |-> config_url, usr |-> config_usr, pwd |-> config_pwd]

InitConfig ==
    /\ pc = "load"
    /\ cfg_id \in CfgIds
    /\ file \in InitFiles
    /\ file0 = file
    /\ all_configs = <<>>
    /\ config_id = None
    /\ config_url = None
    /\ config_usr = None
    /\ config_pwd = NoneBytes
    /\ typed = NoneBytes
    /\ prompted = <<>>
    /\ checks = <<>>
    /\ opens = 0
    /\ wire = <<>>
    /\ exitCode = -1
    /\ result = [url |-> None, usr |-> None, pwd |-> NoneBytes]

\* yaml.safe_load raises on a malformed store file and nothing catches it:
\* the interpreter prints the traceback and exits with status 1.
LoadCrash ==
    /\ pc = "load"
    /\ file.exists /\ ~file.wellformed
    /\ pc' = "exit"
    /\ exitCode' = 1
    /\ UNCHANGED <<cfg_id, file, file0, all_configs, config_id, config_url,
                   config_usr, config_pwd, typed, prompted, checks, opens,
                   wire, result>>
    /\ UNCHANGED <<bvars, xvars>>

\* lines 117-132
Load ==
    /\ pc = "load"
    /\ ~(file.exists /\ ~file.wellformed)
    /\ all_configs' = OrderedDict(jenkins_configs(file))
    /\ config_id' = EffectiveId(cfg_id, all_configs')
    /\ \E d \in {OdGet(all_configs', config_id', EmptyDict)} :
          /\ config_url' = Get(d, "url", None)
          /\ config_usr' = Get(d, "username", None)
          /\ config_pwd' = Get(d, "password", NoneBytes)
    /\ pc' = "check1"
    /\ UNCHANGED <<cfg_id, file, file0, typed, prompted, checks, opens, wire,
                   exitCode, result>>
    /\ UNCHANGED <<bvars, xvars>>

\* A bug Check1 could have: the store saved again when the stored entry
\* verifies.
Check1_SaveOnSuccess ==
    /\ pc = "check1"
    /\ \E resp \in Responses :
       \E c \in {jenkins_check_config(Config, resp)} :
          /\ checks' = Append(checks, c.kind)
          /\ wire' = wire \o c.sent
          /\ pc' = IF c.kind = "ok" THEN "open" ELSE "ask_url"
    /\ UNCHANGED <<cfg_id, file, file0, all_configs, config_id, config_url,
                   config_usr, config_pwd, typed, prompted, opens, exitCode,
                   result>>
    /\ UNCHANGED <<bvars, xvars>>

\* lines 135-138: the bare except catches whatever the check raises
Check1 ==
    /\ pc = "check1"
    /\ \E resp \in Responses :
       \E c \in {jenkins_check_config(Config, resp)} :
          /\ checks' = Append(checks, c.kind)
          /\ wire' = wire \o c.sent
          /\ IF c.kind = "ok"
             THEN /\ pc' = "return"
                  /\ result' = Config
             ELSE /\ pc' = "ask_url"
                  /\ UNCHANGED result
    /\ UNCHANGED <<cfg_id, file, file0, all_configs, config_id, config_url,
                   config_usr, config_pwd, typed, prompted, opens, exitCode>>
    /\ UNCHANGED <<bvars, xvars>>

\* lines 167-169
Fatal ==
    /\ pc' = "exit"
    /\ exitCode' = 1

\* lines 143, 146-148: raw_input raises EOFError when stdin is closed
AskUrl ==
    /\ pc = "ask_url"
    /\ prompted' = Append(prompted, "url")
    /\ \/ \E env \in EnvUrls, inp \in UrlInputs :
             /\ config_url' = Or(inp, Or(config_url, env))
             /\ pc' = "ask_usr"
             /\ UNCHANGED exitCode
       \/ /\ Fatal
          /\ UNCHANGED config_url
    /\ UNCHANGED <<cfg_id, file, file0, all_configs, config_id, config_usr,
                   config_pwd, typed, checks, opens, wire, result>>
    /\ UNCHANGED <<bvars, xvars>>

\* lines 144, 149-151
AskUsr ==
    /\ pc = "ask_usr"
    /\ prompted' = Append(prompted, "username")
    /\ \/ \E env \in EnvUsers, inp \in UsrInputs :
             /\ config_usr' = Or(inp, Or(config_usr, env))
             /\ pc' = "ask_pwd"
             /\ UNCHANGED exitCode
       \/ /\ Fatal
          /\ UNCHANGED config_usr
    /\ UNCHANGED <<cfg_id, file, file0, all_configs, config_id, config_url,
                   config_pwd, typed, checks, opens, wire, result>>
    /\ UNCHANGED <<bvars, xvars>>

\* lines 152-153
AskPwd ==
    /\ pc = "ask_pwd"
    /\ prompted' = Append(prompted, "password")
    /\ \/ \E secret \in Secrets :
             /\ typed' = secret
             /\ config_pwd' = b64encode(secret)
             /\ pc' = "check2"
             /\ UNCHANGED exitCode
       \/ /\ Fatal
          /\ UNCHANGED <<typed, config_pwd>>
    /\ UNCHANGED <<cfg_id, file, file0, all_configs, config_id, config_url,
                   config_usr, checks, opens, wire, result>>
    /\ UNCHANGED <<bvars, xvars>>

\* A bug Check2 could have: a loop that prompts again when the entered
\* values fail.
Check2_Retry ==
    /\ pc = "check2"
    /\ Len(checks) < 4
    /\ \E resp \in Responses :
       \E c \in {jenkins_check_config(Config, resp)} :
          /\ checks' = Append(checks, c.kind)
          /\ wire' = wire \o c.sent
          /\ pc' = IF c.kind = "ok" THEN "open" ELSE "ask_url"
    /\ UNCHANGED <<cfg_id, file, file0, all_configs, config_id, config_url,
                   config_usr, config_pwd, typed, prompted, opens, exitCode,
                   result>>
    /\ UNCHANGED <<bvars, xvars>>

\* line 155, and lines 167-169 when the check raises
Check2 ==
    /\ pc = "check2"
    /\ \E resp \in Responses :
       \E c \in {jenkins_check_config(Config, resp)} :
          /\ checks' = Append(checks, c.kind)
          /\ wire' = wire \o c.sent
          /\ IF c.kind = "ok"
             THEN /\ pc' = "open"
                  /\ UNCHANGED exitCode
             ELSE Fatal
    /\ UNCHANGED <<cfg_id, file, file0, all_configs, config_id, config_url,
                   config_usr, config_pwd, typed, prompted, opens, result>>
    /\ UNCHANGED <<bvars, xvars>>

NewEntry ==
    [url |-> config_url, username |-> config_usr, password |-> config_pwd]

\* lines 158-160: the entry is set, then open(config_file, 'wb') creates the
\* file with the mode the umask leaves or truncates the one that exists,
\* keeping its mode; it raises IOError when the file cannot be opened.
Open ==
    /\ pc = "open"
    /\ all_configs' = SetItem(all_configs, config_id, NewEntry)
    /\ \/ \E umask \in Umasks :
             /\ file' = [exists     |-> TRUE,
                         wellformed |-> TRUE,
                         entries    |-> <<>>,
                         mode       |-> IF file.exists THEN file.mode
                                        ELSE CreateMode(umask)]
             /\ opens' = opens + 1
             /\ pc' = "write"
             /\ UNCHANGED exitCode
       \/ /\ Fatal
          /\ UNCHANGED <<file, opens>>
    /\ UNCHANGED <<cfg_id, file0, config_id, config_url, config_usr,
                   config_pwd, typed, prompted, checks, wire, result>>
    /\ UNCHANGED <<bvars, xvars>>

\* lines 160-162: the list of single-key mappings, in the OrderedDict's order
Write ==
    /\ pc = "write"
    /\ file' = [file EXCEPT !.entries = all_configs]
    /\ pc' = "chmod"
    /\ UNCHANGED <<cfg_id, file0, all_configs, config_id, config_url,
                   config_usr, config_pwd, typed, prompted, checks, opens,
                   wire, exitCode, result>>
    /\ UNCHANGED <<bvars, xvars>>

\* lines 163-165
Chmod ==
    /\ pc = "chmod"
    /\ file' = [file EXCEPT !.mode = Mode0600]
    /\ pc' = "return"
    /\ result' = Config
    /\ UNCHANGED <<cfg_id, file0, all_configs, config_id, config_url,
                   config_usr, config_pwd, typed, prompted, checks, opens,
                   wire, exitCode>>
    /\ UNCHANGED <<bvars, xvars>>

NextConfig ==
    \/ LoadCrash
    \/ Load
    \/ Check1
    \/ AskUrl
    \/ AskUsr
    \/ AskPwd
    \/ Check2
    \/ Open
    \/ Write
    \/ Chmod

\* ConfigSpec runs jenkins_config alone: the batch and the converter idle.
BatchIdle ==
    /\ bpc = "idle"
    /\ action = "config"
    /\ items = <<>>
    /\ idx = 0
    /\ outcome = <<>>
    /\ warnings_ = <<>>
    /\ stdout = <<>>
    /\ bwire = <<>>

ConvIdle ==
    /\ xpc = "idle"
    /\ xmlIn = <<>>
    /\ yamlText = <<>>
    /\ xmlOut = <<>>

ConfigInit == InitConfig /\ BatchIdle /\ ConvIdle

ConfigSpec == ConfigInit /\ [][NextConfig]_vars

\* ------------------------------------------------ __main__: batch commands

\* The triple jenkins_config returned: it passed jenkins_check_config.
BatchConfig ==
    [url |-> "http://j1", usr |-> "alice", pwd |-> b64encode(<<112, 119>>)]

\* A file name is the sequence of its parts: "config-", "." and the text
\* between them.
FileNames ==
    { <<"config-", "a", ".", "yaml">>,
      <<"config-", "b", ".", "xml">>,
      <<"notaconfig", ".", "txt">> }

JobNames == {<<"a">>, <<"b">>}

\* what the server answers to the request of a job operation
BatchResponses == {r \in Responses : r.err \/ r.status \in {200, 500}}

All == <<"all">>

\* what the server lists for fetch all
JobLists == {<<>>, <<<<"a">>, <<"b">>>>}

LastDot(name) ==
    CHOOSE i \in 1..Len(name) :
        name[i] = "." /\ \A j \in (i + 1)..Len(name) : name[j] # "."

\* re.match('^config-(.*)\.[^.]*$', name): job is group(1)
re_match(name) ==
    IF Len(name) >= 2 /\ name[1] = "config-"
           /\ \E i \in 2..Len(name) : name[i] = "."
    THEN [matched |-> TRUE, job |-> SubSeq(name, 2, LastDot(name) - 1)]
    ELSE [matched |-> FALSE, job |-> <<>>]

\* name.endswith('.yaml')
EndsWithYaml(name) ==
    Len(name) >= 2 /\ name[Len(name) - 1] = "." /\ name[Len(name)] = "yaml"

\* lines 234-241 and 249-257, for the outcome r of jenkins_request
PostOutcome(r) ==
    [outcome |-> IF r.raised \/ r.status # 200 THEN "warned" ELSE "ok",
     sent    |-> r.sent]

Crashed == [outcome |-> "crashed", sent |-> <<>>]
Warned  == [outcome |-> "warned", sent |-> <<>>]

\* jenkins_fetch_config: the request and the status are inside the try;
\* xml2yaml and the write of the yaml file (lines 224-226) are after it.
\* xmlok: the content is well-formed XML; writable: the file can be opened.
jenkins_fetch_config(config, job_name, resp, xmlok, writable) ==
    IF resp.err \/ resp.status # 200
    THEN [outcome |-> "warned",
          sent |-> jenkins_request(config, "GET",
                                   <<"/job/", job_name, "/config.xml">>,
                                   EmptyDict, NoResponse, resp).sent]
    ELSE [outcome |-> IF xmlok /\ writable THEN "ok" ELSE "crashed",
          sent |-> jenkins_request(config, "GET",
                                   <<"/job/", job_name, "/config.xml">>,
                                   EmptyDict, NoResponse, resp).sent]

\* Header names and values are sequences of pieces of text, as the parts of
\* the crumb response are.
XmlHeader == [k \in {<<"Content-Type">>} |-> <<"application/xml">>]

\* jenkins_push_config: open(job_config_file).read() at line 230 is before
\* the try; yaml2xml and the request are inside it.
\* readable: the file can be read; yamlok: yaml2xml does not raise.
jenkins_push_config(config, job_name, job_config_file, readable, yamlok, crumbResp, resp) ==
    IF ~readable THEN Crashed
    ELSE IF EndsWithYaml(job_config_file) /\ ~yamlok THEN Warned
    ELSE PostOutcome(jenkins_request(config, "POST",
                                     <<"/job/", job_name, "/config.xml">>,
                                     XmlHeader, crumbResp, resp))

\* jenkins_create_job: as jenkins_push_config, with line 245 before the try
jenkins_create_job(config, job_name, job_config_file, readable, yamlok, crumbResp, resp) ==
    IF ~readable THEN Crashed
    ELSE IF EndsWithYaml(job_config_file) /\ ~yamlok THEN Warned
    ELSE PostOutcome(jenkins_request(config, "POST",
                                     <<"/createItem?name=", job_name>>,
                                     XmlHeader, crumbResp, resp))

\* jenkins_delete_job
jenkins_delete_job(config, job_name, crumbResp, resp) ==
    PostOutcome(jenkins_request(config, "POST",
                                <<"/job/", job_name, "/doDelete">>,
                                EmptyDict, crumbResp, resp))

IsCrumbRequest(req) == req.method = "GET" /\ req.url[2] = CrumbUrl

\* the requests of one call, in order; a crumb request with the response
\* it got
Logged(sent, crumbResp, call) ==
    [k \in 1..Len(sent) |->
        [req   |-> sent[k],
         crumb |-> IF IsCrumbRequest(sent[k]) THEN crumbResp ELSE NoResponse,
         call  |-> call]]

BatchInit ==
    /\ bpc = "start"
    /\ action \in {"fetch", "push", "create", "delete"}
    /\ items \in IF action \in {"push", "create"}
                 THEN SeqsUpTo(FileNames, MaxItems)
                 ELSE IF action = "fetch"
                 THEN SeqsUpTo(JobNames, MaxItems) \cup {<<All>>}
                 ELSE SeqsUpTo(JobNames, MaxItems)
    /\ idx = 1
    /\ outcome = <<>>
    /\ warnings_ = <<>>
    /\ stdout = <<>>
    /\ bwire = <<>>

\* lines 333-334 and jenkins_job_list: nothing catches its assert
ListAll ==
    /\ bpc = "start"
    /\ action = "fetch" /\ items = <<All>>
    /\ \E resp \in BatchResponses :
       \E r \in {jenkins_request(BatchConfig, "GET", <<"/api/json">>, EmptyDict,
                                 NoResponse, resp)} :
          /\ bwire' = bwire \o Logged(r.sent, NoResponse, 0)
          /\ IF r.raised \/ r.status # 200
             THEN /\ bpc' = "crash"
                  /\ UNCHANGED items
             ELSE /\ bpc' = "loop"
                  /\ items' \in JobLists
    /\ UNCHANGED <<action, idx, outcome, warnings_, stdout>>
    /\ UNCHANGED <<cvars, xvars>>

\* lines 332-357: every other command goes to its for loop
Begin ==
    /\ bpc = "start"
    /\ ~(action = "fetch" /\ items = <<All>>)
    /\ bpc' = "loop"
    /\ UNCHANGED <<action, items, idx, outcome, warnings_, stdout, bwire>>
    /\ UNCHANGED <<cvars, xvars>>

\* One iteration of a for loop ends: o is what the item's function did, what
\* it printed goes to stderr or stdout, and an exception nothing caught ends
\* the process.
EndItem(o, crumbResp, warning, line) ==
    /\ outcome' = Append(outcome, o.outcome)
    /\ bwire' = bwire \o Logged(o.sent, crumbResp, idx)
    /\ warnings_' = IF o.outcome = "warned"
                    THEN Append(warnings_, warning) ELSE warnings_
    /\ stdout' = IF o.outcome = "ok" THEN Append(stdout, line) ELSE stdout
    /\ IF o.outcome = "crashed"
       THEN /\ bpc' = "crash"
            /\ UNCHANGED idx
       ELSE /\ idx' = idx + 1
            /\ UNCHANGED bpc
    /\ UNCHANGED <<action, items>>
    /\ UNCHANGED <<cvars, xvars>>

InLoop == bpc = "loop" /\ idx <= Len(items)

\* lines 335-336
Fetch ==
    /\ InLoop /\ action = "fetch"
    /\ \E resp \in BatchResponses, xmlok \in BOOLEAN, writable \in BOOLEAN :
          EndItem(jenkins_fetch_config(BatchConfig, items[idx], resp,
                                       xmlok, writable),
                  NoResponse,
                  <<"unable to fetch config for job", items[idx]>>,
                  <<"config-">> \o items[idx] \o <<".", "yaml">>)

\* lines 340-344 and 349-353: a name that does not match is ignored
Ignore ==
    /\ InLoop /\ action \in {"push", "create"}
    /\ ~re_match(items[idx]).matched
    /\ outcome' = Append(outcome, "ignored")
    /\ warnings_' = Append(warnings_, <<"ignored config file", items[idx]>>)
    /\ idx' = idx + 1
    /\ UNCHANGED <<bpc, action, items, stdout, bwire>>
    /\ UNCHANGED <<cvars, xvars>>

\* line 345
Push ==
    /\ InLoop /\ action = "push"
    /\ re_match(items[idx]).matched
    /\ \E readable \in BOOLEAN, yamlok \in BOOLEAN,
          crumbResp \in CrumbResponses, resp \in BatchResponses :
          EndItem(jenkins_push_config(BatchConfig, re_match(items[idx]).job,
                                      items[idx], readable, yamlok,
                                      crumbResp, resp),
                  crumbResp,
                  <<"unable to push config for job", re_match(items[idx]).job>>,
                  items[idx])

\* line 354
Create ==
    /\ InLoop /\ action = "create"
    /\ re_match(items[idx]).matched
    /\ \E readable \in BOOLEAN, yamlok \in BOOLEAN,
          crumbResp \in CrumbResponses, resp \in BatchResponses :
          EndItem(jenkins_create_job(BatchConfig, re_match(items[idx]).job,
                                     items[idx], readable, yamlok,
                                     crumbResp, resp),
                  crumbResp,
                  <<"unable to create job", re_match(items[idx]).job>>,
                  items[idx])

\* lines 357-358
Delete ==
    /\ InLoop /\ action = "delete"
    /\ \E crumbResp \in CrumbResponses, resp \in BatchResponses :
          EndItem(jenkins_delete_job(BatchConfig, items[idx], crumbResp, resp),
                  crumbResp,
                  <<"unable to delete job", items[idx]>>,
                  items[idx] \o <<"deleted">>)

\* the for loop is over and the process ends with status 0
Finish ==
    /\ bpc = "loop" /\ idx > Len(items)
    /\ bpc' = "done"
    /\ UNCHANGED <<action, items, idx, outcome, warnings_, stdout, bwire>>
    /\ UNCHANGED <<cvars, xvars>>

NextBatch ==
    \/ ListAll
    \/ Begin
    \/ Fetch
    \/ Ignore
    \/ Push
    \/ Create
    \/ Delete
    \/ Finish

\* BatchSpec runs a batch command with the triple jenkins_config returned.
ConfigDone ==
    /\ pc = "return"
    /\ cfg_id = None
    /\ file = AbsentFile
    /\ file0 = AbsentFile
    /\ all_configs = <<>>
    /\ config_id = "default"
    /\ config_url = BatchConfig.url
    /\ config_usr = BatchConfig.usr
    /\ config_pwd = BatchConfig.pwd
    /\ typed = NoneBytes
    /\ prompted = <<>>
    /\ checks = <<"ok">>
    /\ opens = 0
    /\ wire = <<>>
    /\ exitCode = -1
    /\ result = BatchConfig

BatchSpecInit == ConfigDone /\ BatchInit /\ ConvIdle

BatchSpec == BatchSpecInit /\ [][NextBatch]_vars

\* ------------------------------------------------- xml2yaml and yaml2xml

\* An XML element is its tag, its attributes in order, its text and its
\* child elements in order; names and text are sequences of pieces of text,
\* and <<>> is no text.
Element(tag, attrs, text, children) ==
    [tag |-> tag, attrs |-> attrs, text |-> text, children |-> children]

Leaves ==
    {Element(tag, attrs, text, <<>>) :
        tag \in {<<"a">>, <<"b">>},
        attrs \in {<<>>, <<<<<<"x">>, <<"1">>>>>>},
        text \in {<<>>, <<"t">>}}

\* The documents given to xml2yaml: a root with or without an attribute
\* named as a child tag, and up to MaxChildren leaves.
Docs ==
    {Element(<<"r">>, attrs, <<>>, children) :
        attrs \in {<<>>, <<<<<<"a">>, <<"v">>>>>>},
        children \in SeqsUpTo(Leaves, MaxChildren)}

\* The Python values xmltodict and yaml exchange: None, a string, an
\* OrderedDict (its <<key, value>> pairs in order) and a list.
PyNone       == [k |-> "none", s |-> <<>>, items |-> <<>>]
PyStr(s)     == [k |-> "str",  s |-> s,    items |-> <<>>]
PyDict(its)  == [k |-> "dict", s |-> <<>>, items |-> its]
PyList(its)  == [k |-> "list", s |-> <<>>, items |-> its]

AttrKey(name) == <<"@">> \o name
CdataKey      == <<"#text">>

KeyIndex(its, key) == CHOOSE i \in 1..Len(its) : its[i][1] = key

\* xmltodict's push_data: a key seen again turns its value into a list, or
\* extends the list, at the place of the key's first occurrence
push_data(its, key, data) ==
    IF \E i \in 1..Len(its) : its[i][1] = key
    THEN [its EXCEPT ![KeyIndex(its, key)] =
             <<key, IF @[2].k = "list"
                    THEN PyList(Append(@[2].items, data))
                    ELSE PyList(<<@[2], data>>)>>]
    ELSE Append(its, <<key, data>>)

\* xmltodict.parse of one element (startElement, characters, endElement)
RECURSIVE ParseElement(_)
RECURSIVE PushChildren(_, _)
PushChildren(its, children) ==
    IF Len(children) = 0 THEN its
    ELSE PushChildren(push_data(its, children[1].tag,
                                ParseElement(children[1])),
                      Tail(children))

WithCdata(its, text) ==
    IF Len(text) > 0 THEN push_data(its, CdataKey, PyStr(text)) ELSE its

ParseElement(e) ==
    IF Len(e.attrs) = 0 /\ Len(e.children) = 0
    THEN IF Len(e.text) > 0 THEN PyStr(e.text) ELSE PyNone
    ELSE PyDict(WithCdata(
             PushChildren([i \in 1..Len(e.attrs) |->
                              <<AttrKey(e.attrs[i][1]), PyStr(e.attrs[i][2])>>],
                          e.children),
             e.text))

\* xmltodict.parse
xmltodict_parse(doc) == PyDict(<<<<doc.tag, ParseElement(doc)>>>>)

\* YAML text is the sequence of its nodes in document order: a scalar, a
\* null, and the start and end of a block mapping and of a block sequence.
Tok(t, v) == [t |-> t, v |-> v]

\* yaml.dump with the two representers of xml2yaml: an OrderedDict is a
\* mapping in its own order, a unicode string is a str scalar
RECURSIVE yaml_dump(_)
RECURSIVE DumpPairs(_)
RECURSIVE DumpItems(_)
DumpPairs(its) ==
    IF Len(its) = 0 THEN <<>>
    ELSE <<Tok("scalar", its[1][1])>> \o yaml_dump(its[1][2])
             \o DumpPairs(Tail(its))

DumpItems(its) ==
    IF Len(its) = 0 THEN <<>>
    ELSE yaml_dump(its[1]) \o DumpItems(Tail(its))

yaml_dump(v) ==
    CASE v.k = "none" -> <<Tok("null", <<>>)>>
      [] v.k = "str"  -> <<Tok("scalar", v.s)>>
      [] v.k = "dict" ->
            <<Tok("map{", <<>>)>> \o DumpPairs(v.items) \o <<Tok("}", <<>>)>>
      [] v.k = "list" ->
            <<Tok("seq[", <<>>)>> \o DumpItems(v.items) \o <<Tok("]", <<>>)>>

\* xml2yaml
xml2yaml(in_str) == yaml_dump(xmltodict_parse(in_str))

\* ordered_load: yaml.load with mappings built by construct_mapping, that
\* is OrderedDict(construct_pairs(node)).  Each operator returns the value
\* and the text left after it.
RECURSIVE LoadNode(_)
RECURSIVE LoadPairs(_, _)
RECURSIVE LoadItems(_, _)
LoadPairs(ts, acc) ==
    IF ts[1].t = "}" THEN [val |-> PyDict(OrderedDict(acc)), rest |-> Tail(ts)]
    ELSE LoadPairs(LoadNode(Tail(ts)).rest,
                   Append(acc, <<ts[1].v, LoadNode(Tail(ts)).val>>))

LoadItems(ts, acc) ==
    IF ts[1].t = "]" THEN [val |-> PyList(acc), rest |-> Tail(ts)]
    ELSE LoadItems(LoadNode(ts).rest, Append(acc, LoadNode(ts).val))

LoadNode(ts) ==
    CASE ts[1].t = "null"   -> [val |-> PyNone, rest |-> Tail(ts)]
      [] ts[1].t = "scalar" -> [val |-> PyStr(ts[1].v), rest |-> Tail(ts)]
      [] ts[1].t = "map{"   -> LoadPairs(Tail(ts), <<>>)
      [] ts[1].t = "seq["   -> LoadItems(Tail(ts), <<>>)

ordered_load(stream) == LoadNode(stream).val

\* xmltodict's _emit: the elements a key and its value become.  A list is
\* one element per item, all at the place of the key; in a dict the "@" keys
\* are the attributes, "#text" is the text and every other key is emitted
\* in the dict's order.
RECURSIVE Emit(_, _)
RECURSIVE EmitEach(_, _)
RECURSIVE EmitChildren(_)
EmitEach(key, vs) ==
    IF Len(vs) = 0 THEN <<>>
    ELSE Emit(key, vs[1]) \o EmitEach(key, Tail(vs))

EmitChildren(its) ==
    IF Len(its) = 0 THEN <<>>
    ELSE (IF its[1][1][1] = "@" \/ its[1][1] = CdataKey THEN <<>>
          ELSE Emit(its[1][1], its[1][2]))
             \o EmitChildren(Tail(its))

IsAttr(it) == it[1][1] = "@"

AttrsOf(its) ==
    [i \in 1..Len(SelectSeq(its, IsAttr)) |->
        <<Tail(SelectSeq(its, IsAttr)[i][1]), SelectSeq(its, IsAttr)[i][2].s>>]

CdataOf(its) ==
    IF \E i \in 1..Len(its) : its[i][1] = CdataKey
    THEN its[KeyIndex(its, CdataKey)][2].s
    ELSE <<>>

Emit(key, v) ==
    CASE v.k = "list" -> EmitEach(key, v.items)
      [] v.k = "none" -> <<Element(key, <<>>, <<>>, <<>>)>>
      [] v.k = "str"  -> <<Element(key, <<>>, v.s, <<>>)>>
      [] v.k = "dict" ->
            <<Element(key, AttrsOf(v.items), CdataOf(v.items),
                      EmitChildren(v.items))>>

\* xmltodict.unparse: the document has exactly one root
xmltodict_unparse(d) == Emit(d.items[1][1], d.items[1][2])[1]

\* yaml2xml
yaml2xml(in_str) == xmltodict_unparse(ordered_load(in_str))

ConvInit ==
    /\ xpc = "xml"
    /\ xmlIn \in Docs
    /\ yamlText = <<>>
    /\ xmlOut = <<>>

\* jenkins_fetch_config, line 226: the job's XML becomes the yaml file
Xml2Yaml ==
    /\ xpc = "xml"
    /\ yamlText' = xml2yaml(xmlIn)
    /\ xpc' = "yaml"
    /\ UNCHANGED <<xmlIn, xmlOut>>
    /\ UNCHANGED <<cvars, bvars>>

\* jenkins_push_config, line 233: the yaml file becomes the XML to push
Yaml2Xml ==
    /\ xpc = "yaml"
    /\ xmlOut' = yaml2xml(yamlText)
    /\ xpc' = "done"
    /\ UNCHANGED <<xmlIn, yamlText>>
    /\ UNCHANGED <<cvars, bvars>>

NextConv ==
    \/ Xml2Yaml
    \/ Yaml2Xml

ConvSpecInit == ConfigDone /\ BatchIdle /\ ConvInit

ConvSpec == ConvSpecInit /\ [][NextConv]_vars

\* ------------------------------------------- claims about jenkins_config

Returned == pc = "return"
Exited   == pc = "exit"

\* the order of the steps of jenkins_config
Rank(p) ==
    CASE p = "load"    -> 0
      [] p = "check1"  -> 1
      [] p = "ask_url" -> 2
      [] p = "ask_usr" -> 3
      [] p = "ask_pwd" -> 4
      [] p = "check2"  -> 5
      [] p = "open"    -> 6
      [] p = "write"   -> 7
      [] p = "chmod"   -> 8
      [] OTHER         -> 9

\* C1: the credential check runs at most twice and each prompt is shown at
\* most once; a failed second check, or a failed prompt, ends the process
\* with exit status 1; and the run ends: every step moves forward in the
\* order of the steps, no step before the end is stuck, and the end is a
\* return of a triple or an exit with status 1.
C1_TwoChecksThenFatal ==
    /\ [](/\ Len(checks) <= 2
          /\ Len(prompted) <= 3
          /\ \A i, j \in 1..Len(prompted) : prompted[i] = prompted[j] => i = j
          /\ (Len(checks) = 2 /\ checks[2] # "ok") => Exited
          /\ Exited => exitCode = 1
          /\ Returned => exitCode = -1 /\ result = Config
          /\ ~(Returned \/ Exited) => ENABLED NextConfig)
    /\ [][Rank(pc') > Rank(pc)]_vars

C1_Witness ==
    /\ Exited /\ exitCode = 1
    /\ Len(checks) = 2 /\ checks[2] # "ok"
    /\ prompted = <<"url", "username", "password">>

\* C2: the store file is opened for writing at most once, and only after a
\* second check, of prompted values, that succeeded; when the first check
\* succeeds, and when the second check fails, the file is what it was at
\* process start.
C2_WriteOnlyAfterVerifiedPrompt ==
    /\ opens <= 1
    /\ (opens = 1 \/ file # file0) =>
          /\ Len(checks) = 2 /\ checks[1] # "ok" /\ checks[2] = "ok"
          /\ prompted = <<"url", "username", "password">>
    /\ (Len(checks) >= 1 /\ checks[1] = "ok") => opens = 0 /\ file = file0
    /\ (Len(checks) = 2 /\ checks[2] # "ok") => opens = 0 /\ file = file0

C2_Witness ==
    /\ Returned /\ opens = 1 /\ file # file0
    /\ checks[2] = "ok"

\* the first identifier of the store file at process start, in file order
FirstIdOnDisk == file0.entries[1][1]

\* C3: the effective identifier is the given identifier when one is given
\* (an empty -c argument counts as none), else the identifier of the first
\* entry of the store file when it has entries, else "default".
C3_EffectiveIdentifier ==
    (pc # "load" /\ file0.wellformed) =>
        config_id = IF cfg_id # None /\ cfg_id # "" THEN cfg_id
                    ELSE IF file0.exists /\ Len(file0.entries) > 0
                    THEN FirstIdOnDisk
                    ELSE "default"

C3_Witness ==
    /\ pc = "check1" /\ cfg_id = None
    /\ Keys(file0.entries) = <<"cfg1", "cfg2">>
    /\ config_id = "cfg1"

\* the file was written: Write has run
Written == pc \in {"chmod", "return"} /\ opens = 1

\* C4: the written store has every identifier once; an identifier that was
\* in the store keeps its position and gets the verified values; a new one
\* is appended; every other entry keeps its values and its place; and the
\* first identifier changes only when the store was empty.
C4_Upsert ==
    Written =>
        LET old == file0.entries
            new == file.entries
        IN  /\ \A i, j \in 1..Len(new) : new[i][1] = new[j][1] => i = j
            /\ \E i \in 1..Len(new) : new[i] = <<config_id, NewEntry>>
            /\ IF \E i \in 1..Len(old) : old[i][1] = config_id
               THEN /\ Len(new) = Len(old)
                    /\ \A i \in 1..Len(old) :
                          IF old[i][1] = config_id
                          THEN new[i] = <<config_id, NewEntry>>
                          ELSE new[i] = old[i]
               ELSE new = old \o <<<<config_id, NewEntry>>>>
            /\ Len(old) > 0 => new[1][1] = old[1][1]

C4_Witness ==
    /\ Written /\ Returned
    /\ Keys(file0.entries) = <<"cfg2", "cfg1">>
    /\ config_id = "cfg2"
    /\ file.entries[1] = <<"cfg2", NewEntry>>
    /\ file.entries[2] = file0.entries[2]
    /\ file.entries[1] # file0.entries[1]

\* the store file holds the entry that was just verified
HoldsNewEntry ==
    /\ opens = 1
    /\ \E i \in 1..Len(file.entries) : file.entries[i] = <<config_id, NewEntry>>

\* C5: after a successful entry for an identifier the store did not have,
\* the file has exactly one entry with it, whose password is the base64
\* encoding of the typed secret and not the secret, and the file's mode is
\* 0600; and the file never holds the new entry with another mode.
C5_PersistedRestricted ==
    /\ (Returned /\ opens = 1 /\ ~HasKey(file0.entries, config_id)) =>
          /\ Cardinality({i \in 1..Len(file.entries) :
                             file.entries[i][1] = config_id}) = 1
          /\ b64decode(OdGet(file.entries, config_id, EmptyDict).password)
                 = [ok |-> TRUE, v |-> typed]
          /\ OdGet(file.entries, config_id, EmptyDict).password # typed
          /\ file.mode = Mode0600
    /\ HoldsNewEntry => file.mode = Mode0600

BatchOver == bpc \in {"done", "crash"}

\* C6: no failure of one item ends the process: every item of the list gets
\* an outcome that is a success, a warning or a skip, and the loop reaches
\* the end of the list.
C6_ItemFailureIsWarning ==
    /\ \A i \in 1..Len(outcome) : outcome[i] \in {"ok", "warned", "ignored"}
    /\ BatchOver => (bpc = "done" /\ Len(outcome) = Len(items))
                        \/ (bpc = "crash" /\ outcome = <<>>)

\* a name before place i of the list was skipped because it does not match
AfterSkipped(i) ==
    \E j \in 1..(i - 1) : j <= Len(outcome) /\ outcome[j] = "ignored"

\* C9: in push and create, a name that does not match is skipped with a
\* warning and without a request, and every matching name after it is
\* still processed.
C9_SkipThenContinue ==
    action \in {"push", "create"} =>
        /\ \A i \in 1..Len(outcome) :
              ~re_match(items[i]).matched =>
                  /\ outcome[i] = "ignored"
                  /\ \A k \in 1..Len(bwire) : bwire[k].call # i
                  /\ \E w \in 1..Len(warnings_) :
                        warnings_[w] = <<"ignored config file", items[i]>>
        /\ BatchOver =>
              \A i \in 1..Len(items) :
                  (re_match(items[i]).matched /\ AfterSkipped(i))
                      => i <= Len(outcome)

IsPost(e) == e.req.method = "POST"

SameCredentials(e, f) ==
    /\ e.req.url[1] = f.req.url[1]
    /\ e.req.user = f.req.user
    /\ e.req.pass = f.req.pass

\* the crumb issuer answered 200 with a body of the form field:crumb
GoodCrumb(resp) ==
    ~resp.err /\ resp.status = 200 /\ Len(Split(resp.content, ":")) = 2

NoIssuer(resp) == ~resp.err /\ resp.status = 404

CrumbsOfCall(c) ==
    {k \in 1..Len(bwire) : bwire[k].call = c /\ IsCrumbRequest(bwire[k].req)}

\* the POST at place i of the log follows the one crumb request of its call,
\* made with the same credentials
PostFollowsCrumb(i) ==
    /\ i > 1
    /\ IsCrumbRequest(bwire[i - 1].req)
    /\ bwire[i - 1].call = bwire[i].call
    /\ SameCredentials(bwire[i - 1], bwire[i])
    /\ CrumbsOfCall(bwire[i].call) = {i - 1}

\* the crumb request at place i is the last request of its call, and the
\* call ended in a warning
NoPostAfter(i) ==
    /\ i = Len(bwire) \/ bwire[i + 1].call # bwire[i].call
    /\ bwire[i].call \in 1..Len(outcome)
    /\ outcome[bwire[i].call] = "warned"

\* a request that is neither a POST nor a crumb request is alone in its call
AloneInCall(i) ==
    \A k \in 1..Len(bwire) : bwire[k].call = bwire[i].call => k = i

\* C10 as amended: every POST follows the one crumb request of its call; a
\* GET of a job operation triggers none; after a 404 the POST has no crumb
\* header, after a 200 with a body field:crumb it has that header, and after
\* any other answer (a failure, another status, a 200 whose body is not
\* field:crumb) no POST is sent and the call ends in a warning.
C10_CrumbBeforePost ==
    \A i \in 1..Len(bwire) :
        /\ IsPost(bwire[i]) =>
              /\ PostFollowsCrumb(i)
              /\ \/ /\ NoIssuer(bwire[i - 1].crumb)
                    /\ DOMAIN bwire[i].req.headers \subseteq DOMAIN XmlHeader
                 \/ /\ GoodCrumb(bwire[i - 1].crumb)
                    /\ <<"J">> \in DOMAIN bwire[i].req.headers
                    /\ bwire[i].req.headers[<<"J">>] = <<"c">>
        /\ IsCrumbRequest(bwire[i].req) =>
              IF NoIssuer(bwire[i].crumb) \/ GoodCrumb(bwire[i].crumb)
              THEN /\ i < Len(bwire)
                   /\ IsPost(bwire[i + 1])
                   /\ bwire[i + 1].call = bwire[i].call
              ELSE NoPostAfter(i)
        /\ (~IsPost(bwire[i]) /\ ~IsCrumbRequest(bwire[i].req))
              => AloneInCall(i)

C10_Witness ==
    /\ \E i \in 1..Len(bwire) :
          /\ IsPost(bwire[i])
          /\ GoodCrumb(bwire[i - 1].crumb)
          /\ bwire[i].req.headers[<<"J">>] = <<"c">>
    /\ \E i \in 1..Len(bwire) :
          /\ IsCrumbRequest(bwire[i].req)
          /\ ~bwire[i].crumb.err /\ bwire[i].crumb.status = 200
          /\ ~GoodCrumb(bwire[i].crumb)
          /\ NoPostAfter(i)

\* C10 as claimed: whenever the crumb issuer answers 200, the POST is sent
\* and carries a crumb header.
C10_PostAfterEvery200 ==
    \A i \in 1..Len(bwire) :
        (/\ IsCrumbRequest(bwire[i].req)
         /\ ~bwire[i].crumb.err
         /\ bwire[i].crumb.status = 200) =>
            /\ i < Len(bwire)
            /\ IsPost(bwire[i + 1])
            /\ bwire[i + 1].call = bwire[i].call
            /\ ~(DOMAIN bwire[i + 1].req.headers \subseteq DOMAIN XmlHeader)

\* -------------------------------------------- claims about the converter

\* what xmltodict.parse made of the root of the document given
RootValue == xmltodict_parse(xmlIn).items[1][2]

\* C7: xml2yaml then yaml2xml gives back the document: same tags,
\* attributes, text and order of siblings.
C7_RoundTrip == xpc = "done" => xmlOut = xmlIn

====
